---- MODULE Spec2Model ----
(***************************************************************************)
(* A model of the lru_cache crate: the rank-counter LRU cache of           *)
(* src/src/cache.rs and the text-file persistence of                       *)
(* src/src/persistence.rs, instantiated as Cache<String, String>.          *)
(*                                                                         *)
(* A String is a sequence of one-character strings.  A Cache is the record *)
(* [elements, size, max_index] of the struct; elements is the HashMap, a   *)
(* function from the keys present to Element records [index, value].       *)
(***************************************************************************)
EXTENDS Naturals, Sequences, FiniteSets, TLC

VARIABLES cache, loaded, file, reload, last, hist, ops, ref

vars == <<cache, loaded, file, reload, last, hist, ops, ref>>

-----------------------------------------------------------------------------
(* Bounds of the model.                                                    *)

\* Capacities given to Cache::new and read_file range over 0..MaxSize.
MaxSize == 2

\* No get hit or put is taken once max_index has reached MaxIndex (max_index
\* is a usize: the runs modelled stay far from its overflow).
MaxIndex == 6

\* With the file at hand (SpecFile, SpecRead) no get or put is taken once
\* the max_index of the cache in use has reached MaxFileIndex.
MaxFileIndex == 4

-----------------------------------------------------------------------------
(* Characters, strings and the inputs the operations are called with.      *)

Colon == ":"
LF == "\n"
CR == "\r"

\* Keys put and looked up: two plain keys and one that holds the delimiter.
Keys == { <<"A">>, <<"B">>, <<"A", Colon, "B">> }

\* Values put: two plain values, one ending in a carriage return and one
\* holding a line feed.
Values == { <<"1">>, <<"2">>, <<"2", CR>>, <<"1", LF, "2">> }

\* Option<T>.
None == <<"None">>
Some(v) == <<"Some", v>>

\* HashMap::new().
EmptyMap == [k \in {} |-> [index |-> 0, value |-> <<>>]]

\* The absence of a second cache.
NoCache == [elements |-> EmptyMap, size |-> 0, max_index |-> 0, none |-> TRUE]

-----------------------------------------------------------------------------
(* src/src/cache.rs                                                        *)

\* CacheNew starting max_index at 1.
CacheNewFromOne(size) == [elements |-> EmptyMap, size |-> size, max_index |-> 1]

\* Cache::new
CacheNew(size) == [elements |-> EmptyMap, size |-> size, max_index |-> 0]

\* self.elements.len()
ElementsLen(c) == Cardinality(DOMAIN c.elements)

\* OldestKeys taking the keys of maximum index.
OldestKeysNewest(elements) ==
    { k \in DOMAIN elements :
        \A j \in DOMAIN elements : elements[k].index >= elements[j].index }

\* self.elements.iter().min_by_key(|(_, elt)| elt.index): the keys of minimum
\* index.  min_by_key returns the first minimum in the map's iteration order,
\* which is unspecified, so every key of minimum index is a possible result.
OldestKeys(elements) ==
    { k \in DOMAIN elements :
        \A j \in DOMAIN elements : elements[k].index <= elements[j].index }

\* Victims with the length test off by one (len + 1 >= size).
VictimsEarly(c, key) ==
    IF key \in DOMAIN c.elements THEN { {} }
    ELSE IF ElementsLen(c) + 1 >= c.size
         THEN IF DOMAIN c.elements = {} THEN { {} }
              ELSE { {k} : k \in OldestKeys(c.elements) }
         ELSE { {} }

\* Victims removing any key of a full cache.
VictimsAny(c, key) ==
    IF key \in DOMAIN c.elements THEN { {} }
    ELSE IF ElementsLen(c) >= c.size
         THEN IF DOMAIN c.elements = {} THEN { {} }
              ELSE { {k} : k \in DOMAIN c.elements }
         ELSE { {} }

\* Victims with a strict length test (len > size).
VictimsStrict(c, key) ==
    IF key \in DOMAIN c.elements THEN { {} }
    ELSE IF ElementsLen(c) > c.size
         THEN IF DOMAIN c.elements = {} THEN { {} }
              ELSE { {k} : k \in OldestKeys(c.elements) }
         ELSE { {} }

\* Victims removing every key of a full cache.
VictimsAll(c, key) ==
    IF key \in DOMAIN c.elements THEN { {} }
    ELSE IF ElementsLen(c) >= c.size
         THEN { DOMAIN c.elements }
         ELSE { {} }

\* The removals a put(key, _) can make: the key sets `elements.remove` can be
\* called with in the None arm (none when the length test fails or the map
\* is empty and min_by_key yields None).
Victims(c, key) ==
    IF key \in DOMAIN c.elements THEN { {} }
    ELSE IF ElementsLen(c) >= c.size
         THEN IF DOMAIN c.elements = {} THEN { {} }
              ELSE { {k} : k \in OldestKeys(c.elements) }
         ELSE { {} }

\* PutUpdate returning the value just stored instead of the old one.
PutUpdateReturnsNew(c, key, value) ==
    [cache |-> [c EXCEPT !.max_index = c.max_index + 1,
                         !.elements[key] = [index |-> c.max_index + 1,
                                            value |-> value]],
     ret |-> Some(value)]

\* PutUpdate leaving max_index as it was.
PutUpdateKeepsCounter(c, key, value) ==
    [cache |-> [c EXCEPT !.elements[key] = [index |-> c.max_index + 1,
                                            value |-> value]],
     ret |-> Some(c.elements[key].value)]

\* PutUpdate leaving the element at its old index.
PutUpdateInPlace(c, key, value) ==
    [cache |-> [c EXCEPT !.max_index = c.max_index + 1,
                         !.elements[key] = [index |-> c.elements[key].index,
                                            value |-> value]],
     ret |-> Some(c.elements[key].value)]

\* The Some(elt) arm of put: the value is replaced, max_index advanced and
\* the element's index set to it; the old value is returned.
PutUpdate(c, key, value) ==
    [cache |-> [c EXCEPT !.max_index = c.max_index + 1,
                         !.elements[key] = [index |-> c.max_index + 1,
                                            value |-> value]],
     ret |-> Some(c.elements[key].value)]

\* PutInsert numbering the new element from 0 (index = max_index before it
\* is advanced).
PutInsertZeroBased(c, key, value, removed) ==
    [cache |-> [c EXCEPT !.max_index = c.max_index + 1,
                         !.elements =
                            [k \in (DOMAIN c.elements \ removed) \cup {key} |->
                                IF k = key
                                THEN [index |-> c.max_index, value |-> value]
                                ELSE c.elements[k]]],
     ret |-> None]

\* PutInsert starting max_index again from 1 when it has removed a key.
PutInsertResets(c, key, value, removed) ==
    LET n == IF removed = {} THEN c.max_index + 1 ELSE 1 IN
    [cache |-> [c EXCEPT !.max_index = n,
                         !.elements =
                            [k \in (DOMAIN c.elements \ removed) \cup {key} |->
                                IF k = key
                                THEN [index |-> n, value |-> value]
                                ELSE c.elements[k]]],
     ret |-> None]

\* PutInsert advancing max_index by 2, the new element taking the index
\* in between.
PutInsertRunsAhead(c, key, value, removed) ==
    [cache |-> [c EXCEPT !.max_index = c.max_index + 2,
                         !.elements =
                            [k \in (DOMAIN c.elements \ removed) \cup {key} |->
                                IF k = key
                                THEN [index |-> c.max_index + 1, value |-> value]
                                ELSE c.elements[k]]],
     ret |-> None]

\* The None arm of put, with `removed` the set of keys elements.remove took
\* out: max_index is advanced and the new element inserted with it.
PutInsert(c, key, value, removed) ==
    [cache |-> [c EXCEPT !.max_index = c.max_index + 1,
                         !.elements =
                            [k \in (DOMAIN c.elements \ removed) \cup {key} |->
                                IF k = key
                                THEN [index |-> c.max_index + 1, value |-> value]
                                ELSE c.elements[k]]],
     ret |-> None]

\* Cache::put with the removal made explicit.
PutWith(c, key, value, removed) ==
    IF key \in DOMAIN c.elements
    THEN PutUpdate(c, key, value)
    ELSE PutInsert(c, key, value, removed)

\* Cache::put as a function (the removal is unique whenever the indices of
\* the elements are pairwise distinct).
CachePut(c, key, value) ==
    PutWith(c, key, value, CHOOSE r \in Victims(c, key) : TRUE)

\* CacheGet setting the index before max_index is advanced.
CacheGetStaleIndex(c, key) ==
    IF key \in DOMAIN c.elements
    THEN [cache |-> [c EXCEPT !.max_index = c.max_index + 1,
                              !.elements[key].index = c.max_index],
          ret |-> Some(c.elements[key].value)]
    ELSE [cache |-> c, ret |-> None]

\* CacheGet advancing max_index on a miss too.
CacheGetMissCounts(c, key) ==
    IF key \in DOMAIN c.elements
    THEN [cache |-> [c EXCEPT !.max_index = c.max_index + 1,
                              !.elements[key].index = c.max_index + 1],
          ret |-> Some(c.elements[key].value)]
    ELSE [cache |-> [c EXCEPT !.max_index = c.max_index + 1], ret |-> None]

\* Cache::get
CacheGet(c, key) ==
    IF key \in DOMAIN c.elements
    THEN [cache |-> [c EXCEPT !.max_index = c.max_index + 1,
                              !.elements[key].index = c.max_index + 1],
          ret |-> Some(c.elements[key].value)]
    ELSE [cache |-> c, ret |-> None]

\* Cache::get_elt
CacheGetElt(c, key) ==
    IF key \in DOMAIN c.elements THEN Some(c.elements[key]) ELSE None

-----------------------------------------------------------------------------
(* src/src/persistence.rs: the text format.                                *)

\* The location file_path: absent, a readable text file with its content,
\* or something read_to_string fails on ("unreadable"); `writable` says
\* whether write and File::create succeed there.
AbsentFile == [kind |-> "absent", content |-> <<>>, writable |-> TRUE]

\* The keys of maximum index.
NewestKeys(elements) ==
    { k \in DOMAIN elements :
        \A j \in DOMAIN elements : elements[k].index >= elements[j].index }

\* SortedOrders sorting by descending index.
RECURSIVE SortedOrdersDescending(_)
SortedOrdersDescending(elements) ==
    IF DOMAIN elements = {} THEN { <<>> }
    ELSE UNION { { <<k>> \o rest :
                     rest \in SortedOrdersDescending(
                                 [j \in DOMAIN elements \ {k} |-> elements[j]]) } :
                 k \in NewestKeys(elements) }

\* Every ordering of the keys of `elements` that a sort by index can leave:
\* sort_by_key is stable, so elements of equal index stay in the map's
\* iteration order, which is unspecified.
RECURSIVE SortedOrders(_)
SortedOrders(elements) ==
    IF DOMAIN elements = {} THEN { <<>> }
    ELSE UNION { { <<k>> \o rest :
                     rest \in SortedOrders([j \in DOMAIN elements \ {k} |->
                                               elements[j]]) } :
                 k \in OldestKeys(elements) }

\* format!("{}:{}", k.to_string(), e.value.to_string()); to_string of a
\* String is the String.
FormatLine(key, value) == key \o <<Colon>> \o value

\* .collect::<Vec<_>>().join("\n")
RECURSIVE JoinLines(_)
JoinLines(ls) ==
    IF ls = <<>> THEN <<>>
    ELSE IF Len(ls) = 1 THEN ls[1]
    ELSE ls[1] \o <<LF>> \o JoinLines(Tail(ls))

\* The content write_file builds when the sort leaves the keys in `order`.
ContentOf(c, order) ==
    JoinLines([i \in 1..Len(order) |->
                  FormatLine(order[i], c.elements[order[i]].value)])

\* The position of the first ch in text, 0 when there is none.
FirstIndex(text, ch) ==
    IF \E i \in 1..Len(text) : text[i] = ch
    THEN CHOOSE i \in 1..Len(text) :
            text[i] = ch /\ \A j \in 1..(i - 1) : text[j] # ch
    ELSE 0

\* str::split_inclusive('\n'): the pieces of text, each ending with its line
\* feed, the last one possibly without; no piece for the empty text.
RECURSIVE SplitInclusive(_)
SplitInclusive(text) ==
    IF text = <<>> THEN <<>>
    ELSE LET i == FirstIndex(text, LF) IN
         IF i = 0 THEN <<text>>
         ELSE <<SubSeq(text, 1, i)>> \o
              SplitInclusive(SubSeq(text, i + 1, Len(text)))

\* What str::lines makes of one piece: the final line feed is stripped and,
\* only then, a carriage return before it (a carriage return ending a last
\* line that has no line feed is kept, as the current str::lines does).
StripLineEnding(piece) ==
    IF piece # <<>> /\ piece[Len(piece)] = LF
    THEN LET line == SubSeq(piece, 1, Len(piece) - 1) IN
         IF line # <<>> /\ line[Len(line)] = CR
         THEN SubSeq(line, 1, Len(line) - 1)
         ELSE line
    ELSE piece

\* content.lines().map(|l| l.to_string()).collect()
Lines(content) ==
    LET pieces == SplitInclusive(content) IN
    [i \in 1..Len(pieces) |-> StripLineEnding(pieces[i])]

\* KeptLines keeping the first `size` lines instead of the last.
KeptLinesFirst(lines, size) ==
    IF Len(lines) > size THEN SubSeq(lines, 1, size) ELSE lines

\* KeptLines keeping one line more than the capacity.
KeptLinesOneMore(lines, size) ==
    IF Len(lines) > size + 1
    THEN SubSeq(lines, Len(lines) - size, Len(lines))
    ELSE lines

\* if n > size { lines = lines.split_off(n - size); }
KeptLines(lines, size) ==
    LET n == Len(lines) IN
    IF n > size THEN SubSeq(lines, n - size + 1, n) ELSE lines

\* line.split_once(':'): None, or Some((before, after)) of the first colon.
SplitOnce(line) ==
    LET i == FirstIndex(line, Colon) IN
    IF i = 0 THEN None
    ELSE Some(<<SubSeq(line, 1, i - 1), SubSeq(line, i + 1, Len(line))>>)

\* String::from_str, which never fails.
FromStr(text) == [ok |-> TRUE, val |-> text]

\* The body of `for line in lines`: a put when the line splits and both
\* parts parse, nothing otherwise.
FeedLine(c, line) ==
    LET kv == SplitOnce(line) IN
    IF kv = None THEN c
    ELSE LET k == FromStr(kv[2][1])
             v == FromStr(kv[2][2]) IN
         IF k.ok /\ v.ok THEN CachePut(c, k.val, v.val).cache ELSE c

\* FeedLines taking the lines last to first.
RECURSIVE FeedLinesReversed(_, _)
FeedLinesReversed(c, lines) ==
    IF lines = <<>> THEN c
    ELSE FeedLinesReversed(FeedLine(c, lines[Len(lines)]),
                           SubSeq(lines, 1, Len(lines) - 1))

\* for line in lines { ... }
RECURSIVE FeedLines(_, _)
FeedLines(c, lines) ==
    IF lines = <<>> THEN c
    ELSE FeedLines(FeedLine(c, Head(lines)), Tail(lines))

\* ReadCache feeding every line of the file, none split off.
ReadCacheAllLines(size, f) ==
    IF f.kind = "text"
    THEN FeedLines(CacheNew(size), Lines(f.content))
    ELSE CacheNew(size)

\* The cache read_file returns.
ReadCache(size, f) ==
    IF f.kind = "text"
    THEN FeedLines(CacheNew(size), KeptLines(Lines(f.content), size))
    ELSE CacheNew(size)

\* The decimal digits usize::from_str accepts.
Digits == {"0", "1", "2", "3", "4", "5", "6", "7", "8", "9"}

\* The Display text of the number a digit string denotes: no leading zero.
RECURSIVE StripZeros(_)
StripZeros(digits) ==
    IF Len(digits) > 1 /\ Head(digits) = "0"
    THEN StripZeros(Tail(digits))
    ELSE digits

\* usize::from_str, for a Cache<String, usize>: an optional '+', then one
\* or more decimal digits, anything else an error.  A usize value is
\* written by its Display text.
UsizeFromStr(text) ==
    LET digits == IF text # <<>> /\ Head(text) = "+" THEN Tail(text) ELSE text
    IN  IF digits # <<>> /\ \A i \in 1..Len(digits) : digits[i] \in Digits
        THEN [ok |-> TRUE, val |-> StripZeros(digits)]
        ELSE [ok |-> FALSE, val |-> <<>>]

\* FeedLineUsize counting a line it does not put.
FeedLineUsizeCounts(c, line) ==
    LET kv == SplitOnce(line) IN
    IF kv = None THEN [c EXCEPT !.max_index = @ + 1]
    ELSE LET k == FromStr(kv[2][1])
             v == UsizeFromStr(kv[2][2]) IN
         IF k.ok /\ v.ok THEN CachePut(c, k.val, v.val).cache
         ELSE [c EXCEPT !.max_index = @ + 1]

\* The body of `for line in lines` with K = String and V = usize.
FeedLineUsize(c, line) ==
    LET kv == SplitOnce(line) IN
    IF kv = None THEN c
    ELSE LET k == FromStr(kv[2][1])
             v == UsizeFromStr(kv[2][2]) IN
         IF k.ok /\ v.ok THEN CachePut(c, k.val, v.val).cache ELSE c

\* for line in lines { ... } with K = String and V = usize.
RECURSIVE FeedLinesUsize(_, _)
FeedLinesUsize(c, lines) ==
    IF lines = <<>> THEN c
    ELSE FeedLinesUsize(FeedLineUsize(c, Head(lines)), Tail(lines))

\* The cache read_file::<String, usize> returns.
ReadCacheUsize(size, f) ==
    IF f.kind = "text"
    THEN FeedLinesUsize(CacheNew(size), KeptLines(Lines(f.content), size))
    ELSE CacheNew(size)

\* FileCreate never creating the file.
FileCreateSkipped(f) == f

\* let _ = File::create(file_path): an empty file when it succeeds, no
\* change when it fails.
FileCreate(f) ==
    IF f.writable THEN [f EXCEPT !.kind = "text", !.content = <<>>] ELSE f

\* FileAfterRead calling File::create whatever read_to_string returned.
FileAfterReadCreates(f) == FileCreate(f)

\* The location after read_file: touched only in the Err arm.
FileAfterRead(f) == IF f.kind = "text" THEN f ELSE FileCreate(f)

\* FileWrite appending to what the location holds.
FileWriteAppends(f, content) ==
    IF f.writable
    THEN [f EXCEPT !.kind = "text", !.content = f.content \o content]
    ELSE f

\* let _ = write(file_path, content): the content replaces what was there
\* when the write succeeds, no change when it fails.
FileWrite(f, content) ==
    IF f.writable THEN [f EXCEPT !.kind = "text", !.content = content] ELSE f

-----------------------------------------------------------------------------
(* The history of a run that has made only puts, of at most `size` distinct *)
(* keys: the latest value put for each key.  It is dropped for good once    *)
(* the run makes another operation or puts more distinct keys.              *)

NoHist == [tracked |-> FALSE, latest |-> [k \in {} |-> <<>>]]

HistPut(h, c, key, value) ==
    IF h.tracked /\ Cardinality(DOMAIN h.latest \cup {key}) <= c.size
    THEN [tracked |-> TRUE,
          latest |-> [k \in DOMAIN h.latest \cup {key} |->
                         IF k = key THEN value ELSE h.latest[k]]]
    ELSE NoHist

-----------------------------------------------------------------------------
(* How `loaded` was obtained, noted by read_file for the round-trip claims: *)
(* fresh: the read directly followed write_file(&cache, ..); written: that  *)
(* write succeeded; fits: the read was given cache.size and the cache held  *)
(* at most that many entries; safe: no key of the cache held a colon, line  *)
(* feed or carriage return and no value a line feed or carriage return.     *)

NoReload == [fresh |-> FALSE, written |-> FALSE, fits |-> FALSE, safe |-> FALSE]

Has(text, ch) == \E i \in 1..Len(text) : text[i] = ch

TextSafe(c) ==
    \A k \in DOMAIN c.elements :
        /\ ~Has(k, Colon) /\ ~Has(k, LF) /\ ~Has(k, CR)
        /\ ~Has(c.elements[k].value, LF) /\ ~Has(c.elements[k].value, CR)

-----------------------------------------------------------------------------
(* Two records kept beside the cache in use: `ops`, the number of puts and  *)
(* get hits made on it since Cache::new, and `ref`, the recency list an LRU *)
(* cache is described by: the keys from the least to the most recently used *)
(* and their values.                                                        *)

EmptyRef == [order |-> <<>>, value |-> [k \in {} |-> <<>>]]

\* The list without key.
Without(order, key) ==
    LET Other(k) == k # key IN SelectSeq(order, Other)

\* get on the list: a key on it moves to the newest end.
RefGet(r, key) ==
    IF key \in DOMAIN r.value
    THEN [ref |-> [r EXCEPT !.order = Without(r.order, key) \o <<key>>],
          ret |-> Some(r.value[key])]
    ELSE [ref |-> r, ret |-> None]

\* put on the list of a cache of capacity `size`: a key on it moves to the
\* newest end with the new value; a new key is appended, the oldest key
\* dropped first when the list is full.
RefPut(r, size, key, value) ==
    IF key \in DOMAIN r.value
    THEN [ref |-> [r EXCEPT !.order = Without(r.order, key) \o <<key>>,
                            !.value[key] = value],
          ret |-> Some(r.value[key])]
    ELSE LET rest == IF Len(r.order) >= size /\ r.order # <<>>
                     THEN Tail(r.order)
                     ELSE r.order
             order == rest \o <<key>>
         IN  [ref |-> [order |-> order,
                       value |-> [k \in { order[i] : i \in 1..Len(order) } |->
                                     IF k = key THEN value ELSE r.value[k]]],
              ret |-> None]

\* Contents the tests and doc examples put at the location with fs::write:
\* two lines with a final line feed; three lines, the key A twice; CR LF
\* line endings with a line without colon and an empty line.
ExtContents ==
    { <<"A", Colon, "1", LF, "B", Colon, "2", LF>>,
      <<"B", Colon, "1", LF, "A", Colon, "2", LF, "A", Colon, "1">>,
      <<"A", Colon, "1", CR, LF, "B", LF, LF, "B", Colon, "2">> }

\* Contents whose lines do not all parse for a Cache<String, usize>: a
\* value that is no number and one with a leading zero; a sign, a line
\* without colon and an empty value; a line without colon between two
\* lines of the same key.
ParseContents ==
    { <<"A", Colon, "1", LF, "B", Colon, "x", LF, "B", Colon, "0", "2">>,
      <<"A", Colon, "+", "1", LF, "B", LF, "A", Colon>>,
      <<"A", Colon, "1", LF, "B", LF, "A", Colon, "2">> }

\* A content with a key on its first and on its last line, another key in
\* between.
DupContents ==
    { <<"A", Colon, "1", LF, "B", Colon, "2", LF, "A", Colon, "2">> }

-----------------------------------------------------------------------------
(* The operations.  `cache` is the cache in use; `loaded` is the cache the  *)
(* last read_file returned, until it is taken into use (Adopt).  While      *)
(* both exist, get and put are applied to both.                             *)

\* let mut cache = Cache::new(size)
Init ==
    /\ \E size \in 0..MaxSize :
          /\ cache = CacheNew(size)
          /\ last = [op |-> "new", size |-> size]
    /\ loaded = NoCache
    /\ file = AbsentFile
    /\ reload = NoReload
    /\ hist = [tracked |-> TRUE, latest |-> [k \in {} |-> <<>>]]
    /\ ops = 0
    /\ ref = EmptyRef

\* cache.put(key, value)
Put(key, value) ==
    /\ loaded = NoCache
    /\ cache.max_index < MaxIndex
    /\ \E removed \in Victims(cache, key) :
          LET r == PutWith(cache, key, value, removed) IN
          /\ cache' = r.cache
          /\ last' = [op |-> "put", key |-> key, value |-> value,
                      ret |-> r.ret, removed |-> removed]
    /\ hist' = HistPut(hist, cache, key, value)
    /\ ops' = ops + 1
    /\ ref' = RefPut(ref, cache.size, key, value).ref
    /\ UNCHANGED <<loaded, file, reload>>

\* cache.get(&key)
Get(key) ==
    /\ loaded = NoCache
    /\ key \in DOMAIN cache.elements => cache.max_index < MaxIndex
    /\ LET r == CacheGet(cache, key) IN
          /\ cache' = r.cache
          /\ last' = [op |-> "get", key |-> key, ret |-> r.ret]
    /\ hist' = NoHist
    /\ ops' = IF key \in DOMAIN cache.elements THEN ops + 1 ELSE ops
    /\ ref' = RefGet(ref, key).ref
    /\ UNCHANGED <<loaded, file, reload>>

\* GetElt moving the element to max_index + 1 as get does.
GetEltTouches(key) ==
    /\ loaded = NoCache
    /\ key \in DOMAIN cache.elements => cache.max_index < MaxIndex
    /\ cache' = CacheGet(cache, key).cache
    /\ last' = [op |-> "get_elt", key |-> key, ret |-> CacheGetElt(cache, key)]
    /\ hist' = NoHist
    /\ UNCHANGED <<loaded, file, reload, ops, ref>>

\* cache.get_elt(&key)
GetElt(key) ==
    /\ loaded = NoCache
    /\ last' = [op |-> "get_elt", key |-> key, ret |-> CacheGetElt(cache, key)]
    /\ hist' = NoHist
    /\ UNCHANGED <<cache, loaded, file, reload, ops, ref>>

\* WriteFile emptying the cache it has written.
WriteFileDrains ==
    /\ loaded = NoCache
    /\ \E order \in SortedOrders(cache.elements) :
          file' = FileWrite(file, ContentOf(cache, order))
    /\ cache' = CacheNew(cache.size)
    /\ last' = [op |-> "write_file", ok |-> file.writable]
    /\ hist' = NoHist
    /\ UNCHANGED <<loaded, reload, ops, ref>>

\* FilePersistence::write_file(&cache, file_path)
WriteFile ==
    /\ loaded = NoCache
    /\ \E order \in SortedOrders(cache.elements) :
          file' = FileWrite(file, ContentOf(cache, order))
    /\ last' = [op |-> "write_file", ok |-> file.writable]
    /\ hist' = NoHist
    /\ UNCHANGED <<cache, loaded, reload, ops, ref>>

\* let loaded = FilePersistence::read_file(size, file_path)
ReadFile(size) ==
    /\ loaded = NoCache
    /\ loaded' = ReadCache(size, file)
    /\ file' = FileAfterRead(file)
    /\ last' = [op |-> "read_file", size |-> size, err |-> file.kind # "text"]
    /\ reload' = [fresh |-> last.op = "write_file",
                  written |-> last.op = "write_file" /\ last.ok,
                  fits |-> size = cache.size /\ ElementsLen(cache) <= cache.size,
                  safe |-> TextSafe(cache)]
    /\ hist' = NoHist
    /\ UNCHANGED <<cache, ops, ref>>

\* let loaded: Cache<String, usize> = FilePersistence::read_file(size, ..)
ReadFileUsize(size) ==
    /\ loaded = NoCache
    /\ loaded' = ReadCacheUsize(size, file)
    /\ file' = FileAfterRead(file)
    /\ last' = [op |-> "read_file_usize", size |-> size,
                err |-> file.kind # "text"]
    /\ reload' = NoReload
    /\ hist' = NoHist
    /\ UNCHANGED <<cache, ops, ref>>

\* The reload the same operations are then applied to both caches after:
\* loaded = read_file(cache.size, ..) of what write_file(&cache, ..) wrote,
\* the cache holding at most cache.size entries.
InStep == loaded # NoCache /\ reload.fresh /\ reload.written /\ reload.fits

\* cache.put(key, value); loaded.put(key, value)
PutBoth(key, value) ==
    /\ InStep
    /\ cache.max_index < MaxIndex /\ loaded.max_index < MaxIndex
    /\ \E removed \in Victims(cache, key), removed2 \in Victims(loaded, key) :
          LET r == PutWith(cache, key, value, removed)
              r2 == PutWith(loaded, key, value, removed2) IN
          /\ cache' = r.cache
          /\ loaded' = r2.cache
          /\ last' = [op |-> "put_both", key |-> key, value |-> value,
                      ret |-> r.ret, ret2 |-> r2.ret,
                      removed |-> removed, removed2 |-> removed2]
    /\ ops' = ops + 1
    /\ ref' = RefPut(ref, cache.size, key, value).ref
    /\ UNCHANGED <<file, reload, hist>>

\* cache.get(&key); loaded.get(&key)
GetBoth(key) ==
    /\ InStep
    /\ key \in DOMAIN cache.elements => cache.max_index < MaxIndex
    /\ key \in DOMAIN loaded.elements => loaded.max_index < MaxIndex
    /\ LET r == CacheGet(cache, key)
           r2 == CacheGet(loaded, key) IN
          /\ cache' = r.cache
          /\ loaded' = r2.cache
          /\ last' = [op |-> "get_both", key |-> key,
                      ret |-> r.ret, ret2 |-> r2.ret]
    /\ ops' = IF key \in DOMAIN cache.elements THEN ops + 1 ELSE ops
    /\ ref' = RefGet(ref, key).ref
    /\ UNCHANGED <<file, reload, hist>>

\* from_str of the value type: V = usize or V = String.
ParseValue(vtype, text) ==
    IF vtype = "usize" THEN UsizeFromStr(text) ELSE FromStr(text)

\* A line that splits at a colon and whose value parses.
WellFormed(vtype, line) ==
    /\ SplitOnce(line) # None
    /\ ParseValue(vtype, SplitOnce(line)[2][2]).ok

\* The cache after a put for each of the lines, all well-formed, in order.
RECURSIVE PutAll(_, _, _)
PutAll(vtype, c, lines) ==
    IF lines = <<>> THEN c
    ELSE LET kv == SplitOnce(Head(lines))[2] IN
         PutAll(vtype,
                CachePut(c, kv[1], ParseValue(vtype, kv[2]).val).cache,
                Tail(lines))

\* The last `size` lines of the file, all of them when there are fewer.
Retained(lines, size) ==
    SubSeq(lines,
           IF Len(lines) > size THEN Len(lines) - size + 1 ELSE 1,
           Len(lines))

\* The value type of the read that `last` records.
LastVtype == IF last.op = "read_file_usize" THEN "usize" ELSE "String"

\* The key of a line that splits, None for a line without colon.
LineKey(line) ==
    IF SplitOnce(line) = None THEN None ELSE Some(SplitOnce(line)[2][1])

\* The well-formed lines among the retained lines of the file just read.
GoodLines ==
    LET W(line) == WellFormed(LastVtype, line)
    IN  SelectSeq(Retained(Lines(file.content), last.size), W)

\* The puts read_file made to build `loaded`, one per well-formed retained
\* line of the file it read.
ReadPuts == IF last.err THEN 0 ELSE Len(GoodLines)

\* The recency list after a put for each of the lines, all well-formed.
RECURSIVE RefPutAll(_, _, _, _)
RefPutAll(vtype, r, size, lines) ==
    IF lines = <<>> THEN r
    ELSE LET kv == SplitOnce(Head(lines))[2] IN
         RefPutAll(vtype,
                   RefPut(r, size, kv[1], ParseValue(vtype, kv[2]).val).ref,
                   size, Tail(lines))

\* The loaded cache becomes the cache in use (loaded_cache1 in main and in
\* scenario_lru_multiple_writing); the one it was read from is dropped.
Adopt ==
    /\ loaded # NoCache
    /\ cache' = loaded
    /\ loaded' = NoCache
    /\ reload' = NoReload
    /\ last' = [op |-> "adopt"]
    /\ ops' = ReadPuts
    /\ ref' = IF last.err THEN EmptyRef
               ELSE RefPutAll(LastVtype, EmptyRef, loaded.size, GoodLines)
    /\ UNCHANGED <<file, hist>>

\* cleanup(file_path): remove_file
FsRemove ==
    /\ loaded = NoCache
    /\ file.kind # "absent"
    /\ file' = [file EXCEPT !.kind = "absent", !.content = <<>>]
    /\ last' = [op |-> "fs_remove"]
    /\ hist' = NoHist
    /\ UNCHANGED <<cache, loaded, reload, ops, ref>>

\* let _ = write(file_path, "...") of the tests
FsWrite(content) ==
    /\ loaded = NoCache
    /\ file.writable
    /\ file' = [file EXCEPT !.kind = "text", !.content = content]
    /\ last' = [op |-> "fs_write"]
    /\ hist' = NoHist
    /\ UNCHANGED <<cache, loaded, reload, ops, ref>>

\* The location stops or starts to accept write and File::create (the
\* results both calls discard with `let _ =`).
FsPermission ==
    /\ loaded = NoCache
    /\ file' = [file EXCEPT !.writable = ~file.writable]
    /\ last' = [op |-> "fs_permission"]
    /\ hist' = NoHist
    /\ UNCHANGED <<cache, loaded, reload, ops, ref>>

\* The file at the location becomes one read_to_string fails on.
FsCorrupt ==
    /\ loaded = NoCache
    /\ file.kind = "text"
    /\ file' = [file EXCEPT !.kind = "unreadable"]
    /\ last' = [op |-> "fs_corrupt"]
    /\ hist' = NoHist
    /\ UNCHANGED <<cache, loaded, reload, ops, ref>>

\* The cache alone.
Next ==
    \/ \E key \in Keys, value \in Values : Put(key, value)
    \/ \E key \in Keys : Get(key)
    \/ \E key \in Keys : GetElt(key)

Spec == Init /\ [][Next]_vars

\* The cache written to the location and read back at once, as main and
\* the tests do (write_file, then read_file), the write failing or not;
\* the same operations are then applied to the cache and to its reload.
NextFile ==
    \/ /\ last.op # "write_file"
       /\ \/ /\ cache.max_index < MaxFileIndex
             /\ \/ \E key \in Keys, value \in Values : Put(key, value)
                \/ \E key \in Keys : Get(key)
          \/ FsPermission
          \/ WriteFile
    \/ /\ last.op = "write_file"
       /\ \E size \in 0..MaxSize : ReadFile(size)
    \/ /\ cache.max_index < MaxFileIndex
       /\ \/ \E key \in Keys, value \in Values : PutBoth(key, value)
          \/ \E key \in Keys : GetBoth(key)

SpecFile == Init /\ [][NextFile]_vars

\* read_file on what the location may hold, and the cache it returns in use.
NextRead ==
    \/ \E content \in ExtContents : FsWrite(content)
    \/ FsRemove
    \/ FsPermission
    \/ FsCorrupt
    \/ \E size \in 0..MaxSize : ReadFile(size)
    \/ Adopt
    \/ /\ cache.max_index < MaxFileIndex
       /\ \/ \E key \in Keys, value \in Values : Put(key, value)
          \/ \E key \in Keys : Get(key)

SpecRead == Init /\ [][NextRead]_vars

\* read_file of lines that do not all parse, with String and with usize
\* values, and the cache it returns looked up.
NextParse ==
    \/ \E content \in ParseContents : FsWrite(content)
    \/ FsRemove
    \/ \E size \in 0..MaxSize : ReadFile(size)
    \/ \E size \in 0..MaxSize : ReadFileUsize(size)
    \/ Adopt
    \/ /\ cache.max_index < MaxFileIndex
       /\ \E key \in Keys : Get(key)
    \/ \E key \in Keys : GetElt(key)

SpecParse == Init /\ [][NextParse]_vars

\* write_file over whatever the location holds: the cache is built, the
\* location prepared, and the cache written.
NextWrite ==
    /\ last.op # "write_file"
    /\ \/ /\ cache.max_index < MaxFileIndex
          /\ \/ \E key \in Keys, value \in Values : Put(key, value)
             \/ \E key \in Keys : Get(key)
       \/ \E content \in ExtContents : FsWrite(content)
       \/ FsRemove
       \/ FsPermission
       \/ WriteFile

SpecWrite == Init /\ [][NextWrite]_vars

\* The keys and one more, so that three keys hold no colon.
MoreKeys == Keys \cup { <<"C">> }

\* A cache larger than every capacity read_file is given, written and read
\* back at once into a smaller one.
InitLarge ==
    /\ cache = CacheNew(MaxSize + 1)
    /\ last = [op |-> "new", size |-> MaxSize + 1]
    /\ loaded = NoCache
    /\ file = AbsentFile
    /\ reload = NoReload
    /\ hist = [tracked |-> TRUE, latest |-> [k \in {} |-> <<>>]]
    /\ ops = 0
    /\ ref = EmptyRef

NextShrink ==
    \/ /\ last.op # "write_file"
       /\ \/ /\ cache.max_index < MaxFileIndex
             /\ \/ \E key \in MoreKeys, value \in Values : Put(key, value)
                \/ \E key \in MoreKeys : Get(key)
          \/ FsPermission
          \/ WriteFile
    \/ /\ last.op = "write_file"
       /\ \E size \in 0..MaxSize : ReadFile(size)

SpecShrink == InitLarge /\ [][NextShrink]_vars

\* read_file of contents that hold a key on several lines, with capacities
\* up to the number of lines, and the cache it returns looked up.
NextDup ==
    \/ \E content \in ExtContents \cup DupContents : FsWrite(content)
    \/ \E size \in 0..(MaxSize + 1) : ReadFile(size)
    \/ Adopt
    \/ /\ cache.max_index < MaxFileIndex
       /\ \E key \in Keys : Get(key)

SpecDup == Init /\ [][NextDup]_vars

-----------------------------------------------------------------------------
(* Claims about the cache (src/src/cache.rs).                              *)

\* The entries of c other than key keep their value and index in d.
OthersKept(c, d, key) ==
    \A k \in DOMAIN c.elements \ {key} :
        k \in DOMAIN d.elements /\ d.elements[k] = c.elements[k]

\* C1: after every operation the number of entries is at most the capacity,
\* for every capacity Cache::new accepts, zero included.
C1_SizeBound == ElementsLen(cache) <= cache.size

\* C2: a put of an absent key into a cache holding >= capacity entries
\* removes exactly one entry, the one of minimum index, and every other
\* entry is still there with its value and index.
C2_EvictionVictim ==
    [][(/\ last'.op = "put"
        /\ last'.key \notin DOMAIN cache.elements
        /\ ElementsLen(cache) >= cache.size)
       => \E victim \in DOMAIN cache.elements :
             /\ \A j \in DOMAIN cache.elements :
                    cache.elements[victim].index <= cache.elements[j].index
             /\ DOMAIN cache'.elements =
                    (DOMAIN cache.elements \ {victim}) \cup {last'.key}
             /\ OthersKept(cache, cache', victim)]_vars

\* C3: a get of a present key returns the stored value, advances max_index
\* by exactly 1 and sets the entry's index to the new max_index, which is
\* strictly greater than every other index; the key set, the values and the
\* other indices are unchanged.
C3_GetHit ==
    [][(last'.op = "get" /\ last'.key \in DOMAIN cache.elements)
       => LET key == last'.key IN
          /\ last'.ret = Some(cache.elements[key].value)
          /\ cache'.max_index = cache.max_index + 1
          /\ DOMAIN cache'.elements = DOMAIN cache.elements
          /\ cache'.elements[key].index = cache'.max_index
          /\ cache'.elements[key].value = cache.elements[key].value
          /\ \A j \in DOMAIN cache'.elements \ {key} :
                cache'.elements[j].index < cache'.elements[key].index
          /\ OthersKept(cache, cache', key)
          /\ cache'.size = cache.size]_vars

C3_Witness ==
    /\ last.op = "get"
    /\ last.ret # None
    /\ ElementsLen(cache) >= 2
    /\ cache.elements[last.key].index = cache.max_index

\* C4: a get of an absent key returns None and leaves the key set, the
\* values, the indices, max_index and the capacity as they were.
C4_GetMiss ==
    [][(last'.op = "get" /\ last'.key \notin DOMAIN cache.elements)
       => (last'.ret = None /\ cache' = cache)]_vars

C4_Witness ==
    /\ last.op = "get"
    /\ last.ret = None
    /\ last.key \notin DOMAIN cache.elements
    /\ cache.elements # EmptyMap

\* C5: a put of a present key returns the value stored before, stores the
\* new one, advances max_index by 1 and sets the key's index to it; nothing
\* is evicted even from a full cache and every other entry keeps its value
\* and index.
C5_PutExisting ==
    [][(last'.op = "put" /\ last'.key \in DOMAIN cache.elements)
       => LET key == last'.key IN
          /\ last'.ret = Some(cache.elements[key].value)
          /\ cache'.max_index = cache.max_index + 1
          /\ DOMAIN cache'.elements = DOMAIN cache.elements
          /\ cache'.elements[key] =
                [index |-> cache'.max_index, value |-> last'.value]
          /\ OthersKept(cache, cache', key)
          /\ cache'.size = cache.size]_vars

C5_Witness ==
    /\ last.op = "put"
    /\ last.ret # None
    /\ last.ret # Some(last.value)
    /\ cache.size >= 2
    /\ ElementsLen(cache) = cache.size

\* C6: in a run of puts from a new cache that uses at most `size` distinct
\* keys, a put of a new key returns None, no key is removed, and every key
\* put is present with the value of its latest put.
C6_NoEvictionBelowCapacity ==
    [][hist'.tracked
       => /\ DOMAIN cache.elements \subseteq DOMAIN cache'.elements
          /\ last'.key \notin DOMAIN cache.elements => last'.ret = None
          /\ DOMAIN cache'.elements = DOMAIN hist'.latest
          /\ \A k \in DOMAIN hist'.latest :
                cache'.elements[k].value = hist'.latest[k]]_vars

C6_Witness ==
    /\ hist.tracked
    /\ cache.size >= 2
    /\ Cardinality(DOMAIN hist.latest) = cache.size
    /\ cache.max_index > cache.size

-----------------------------------------------------------------------------
(* Claims about the persistence (src/src/persistence.rs).                  *)

\* d holds the keys of c with their values, the entry of i-th smallest index
\* in c having index i in d, and d.max_index is the number of entries.
RoundTrip(c, d) ==
    /\ DOMAIN d.elements = DOMAIN c.elements
    /\ \A k \in DOMAIN c.elements :
          /\ d.elements[k].value = c.elements[k].value
          /\ d.elements[k].index =
                Cardinality({ j \in DOMAIN c.elements :
                                c.elements[j].index <= c.elements[k].index })
    /\ d.max_index = ElementsLen(c)

\* C7 as claimed: for a cache of capacity >= 1 holding at most capacity
\* entries, write_file followed by read_file with the same capacity gives
\* the same key-to-value mapping with the indices renumbered 1..n in the
\* same order and max_index = n.
C7_RoundTrip ==
    (/\ last.op = "read_file"
     /\ reload.fresh /\ reload.fits
     /\ cache.size >= 1)
    => RoundTrip(cache, loaded)

\* C7 amended: the same, when the write succeeded, the file could be read
\* back, and no key holds a colon, line feed or carriage return and no value
\* a line feed or carriage return.
C7_RoundTripSafe ==
    (/\ last.op = "read_file"
     /\ reload.fresh /\ reload.fits
     /\ cache.size >= 1
     /\ reload.written /\ ~last.err /\ reload.safe)
    => RoundTrip(cache, loaded)

C7_Witness ==
    /\ last.op = "read_file"
    /\ reload.fresh /\ reload.fits /\ reload.written /\ reload.safe
    /\ ElementsLen(cache) >= 2
    /\ \E j, k \in DOMAIN cache.elements :
          /\ cache.elements[j].index + 1 < cache.elements[k].index
          /\ loaded.elements[j].index + 1 = loaded.elements[k].index

\* c and d hold the same keys with the same values, in the same order of
\* index.
Agree(c, d) ==
    /\ DOMAIN d.elements = DOMAIN c.elements
    /\ \A k \in DOMAIN c.elements : d.elements[k].value = c.elements[k].value
    /\ \A j, k \in DOMAIN c.elements :
          (c.elements[j].index < c.elements[k].index)
             <=> (d.elements[j].index < d.elements[k].index)

\* C8 as claimed: after c' = read(capacity, write(c)) of a cache holding at
\* most capacity entries, every get and put applied to both returns the same
\* result on both, evicts the same key, and leaves the same key-to-value
\* mapping in the same order of index.
C8_ReloadEquivalent ==
    (InStep /\ last.op \in {"put_both", "get_both"})
    => /\ last.ret = last.ret2
       /\ last.op = "put_both" => last.removed = last.removed2
       /\ Agree(cache, loaded)

\* C8 amended: the same, when no key of c holds a colon, line feed or
\* carriage return and no value a line feed or carriage return.
C8_ReloadEquivalentSafe ==
    (InStep /\ reload.safe /\ last.op \in {"put_both", "get_both"})
    => /\ last.ret = last.ret2
       /\ last.op = "put_both" => last.removed = last.removed2
       /\ Agree(cache, loaded)

C8_Witness ==
    /\ InStep /\ reload.safe
    /\ last.op = "put_both"
    /\ last.removed # {}
    /\ ElementsLen(cache) >= 2
    /\ cache.max_index > loaded.max_index

\* C9: when the file has more lines than the capacity given to read_file,
\* only the last `capacity` lines are used: the cache is the one read from
\* those lines alone, a key found only on an earlier line is absent, and the
\* key of every retained line that splits is present.
C9_ReadTruncation ==
    (/\ last.op = "read_file"
     /\ ~last.err
     /\ Len(Lines(file.content)) > last.size)
    => LET lines == Lines(file.content)
           n == Len(lines)
           dropped == 1..(n - last.size)
           kept == (n - last.size + 1)..n
       IN  /\ \A i \in kept :
                 LineKey(lines[i]) # None
                    => LineKey(lines[i])[2] \in DOMAIN loaded.elements
           /\ \A i \in dropped :
                 (/\ LineKey(lines[i]) # None
                  /\ \A j \in kept : LineKey(lines[j]) # LineKey(lines[i]))
                    => LineKey(lines[i])[2] \notin DOMAIN loaded.elements
           /\ loaded = ReadCache(last.size,
                  [file EXCEPT !.content =
                      JoinLines(SubSeq(lines, n - last.size + 1, n))])

C9_Witness ==
    /\ last.op = "read_file"
    /\ ~last.err
    /\ last.size >= 1
    /\ Len(Lines(file.content)) > last.size
    /\ loaded.elements # EmptyMap
    /\ \E i \in 1..(Len(Lines(file.content)) - last.size) :
          /\ LineKey(Lines(file.content)[i]) # None
          /\ LineKey(Lines(file.content)[i])[2] \notin DOMAIN loaded.elements

\* C10 as claimed: when the location does not exist or cannot be read,
\* read_file returns an empty cache of the requested capacity with
\* max_index = 0 and an empty file exists at the location afterwards.
C10_ReadMissing ==
    (last.op = "read_file" /\ last.err)
    => /\ loaded = CacheNew(last.size)
       /\ file.kind = "text" /\ file.content = <<>>

\* C10 amended: read_file returns that empty cache; an empty file exists at
\* the location afterwards when File::create succeeds, and the location is
\* left as it was when it fails.
C10_ReadMissingCreates ==
    [][(last'.op = "read_file" /\ file.kind # "text")
       => /\ last'.err
          /\ loaded' = CacheNew(last'.size)
          /\ file.writable => (file'.kind = "text" /\ file'.content = <<>>)
          /\ ~file.writable => file' = file]_vars

C10_Witness ==
    /\ last.op = "read_file" /\ last.err
    /\ last.size >= 1
    /\ loaded = CacheNew(last.size)
    /\ file.kind = "text" /\ file.content = <<>>
\* C11: a retained line without colon, or whose value does not parse, is
\* skipped alone: the cache read_file returns is the one obtained by a put
\* for each well-formed retained line in file order, and its max_index is
\* the number of those lines.
C11_MalformedSkipped ==
    (last.op \in {"read_file", "read_file_usize"} /\ ~last.err)
    => LET kept == Retained(Lines(file.content), last.size)
           W(line) == WellFormed(LastVtype, line)
           good == SelectSeq(kept, W)
       IN  /\ loaded = PutAll(LastVtype, CacheNew(last.size), good)
           /\ loaded.max_index = Len(good)

C11_Witness ==
    /\ last.op = "read_file_usize" /\ ~last.err
    /\ LET kept == Retained(Lines(file.content), last.size) IN
       \E i, j \in 1..Len(kept) :
          /\ i < j
          /\ SplitOnce(kept[i]) # None
          /\ ~WellFormed("usize", kept[i])
          /\ WellFormed("usize", kept[j])
          /\ SplitOnce(kept[j])[2][1] \in DOMAIN loaded.elements
          /\ loaded.max_index = 1

\* The indices of the elements of c.
Indices(c) == { c.elements[k].index : k \in DOMAIN c.elements }

\* No key is on two of the lines.
DistinctKeys(lines) ==
    \A i, j \in 1..Len(lines) :
        LineKey(lines[i]) = LineKey(lines[j]) => i = j

\* C12 as claimed: for every file content and capacity, the cache read_file
\* returns, holding N entries, has exactly the indices 1..N.
C12_RanksAfterRead ==
    (last.op = "read_file" /\ ~last.err)
    => Indices(loaded) = 1..ElementsLen(loaded)

\* C12 amended: the index of each entry is the position, among the
\* well-formed retained lines, of the last line with its key, and
\* max_index is the number of those lines; the indices are exactly 1..N
\* when no key is on two of those lines.
C12_RanksAfterReadLastLine ==
    (last.op = "read_file" /\ ~last.err)
    => /\ loaded.max_index = Len(GoodLines)
       /\ \A k \in DOMAIN loaded.elements :
             \E i \in 1..Len(GoodLines) :
                /\ LineKey(GoodLines[i]) = Some(k)
                /\ loaded.elements[k].index = i
                /\ \A j \in (i + 1)..Len(GoodLines) :
                      LineKey(GoodLines[j]) # Some(k)
       /\ DistinctKeys(GoodLines)
             => /\ ElementsLen(loaded) = Len(GoodLines)
                /\ Indices(loaded) = 1..ElementsLen(loaded)

C12_Witness ==
    /\ last.op = "read_file" /\ ~last.err
    /\ DistinctKeys(GoodLines)
    /\ ElementsLen(loaded) = 2
    /\ Indices(loaded) = {1, 2}
    /\ LineKey(GoodLines[1]) = Some(<<"A">>)
    /\ loaded.elements[<<"A">>].index = 1

-----------------------------------------------------------------------------
(* Claims about write_file, the indices and the lookups.                    *)

\* The position of key k when the elements of c are put in ascending index.
RankOf(c, k) ==
    1 + Cardinality({ j \in DOMAIN c.elements :
                        c.elements[j].index < c.elements[k].index })

\* One key:value text per element of c, in ascending index.
AscLines(c) ==
    [i \in 1..ElementsLen(c) |->
        LET k == CHOOSE k \in DOMAIN c.elements : RankOf(c, k) = i
        IN  FormatLine(k, c.elements[k].value)]

\* No key and no value of c holds a line feed or a carriage return.
LineSafe(c) ==
    \A k \in DOMAIN c.elements :
        /\ ~Has(k, LF) /\ ~Has(k, CR)
        /\ ~Has(c.elements[k].value, LF) /\ ~Has(c.elements[k].value, CR)

\* C13 as claimed: after a write_file that succeeds, the lines of the file
\* are exactly the key:value texts of the entries, one line per entry, in
\* ascending index.
C13_WriteOutput ==
    (last.op = "write_file" /\ last.ok)
    => /\ file.kind = "text"
       /\ Lines(file.content) = AscLines(cache)

\* C13 amended: after a write_file that succeeds, the file holds the
\* key:value texts of the entries in ascending index joined by line feeds,
\* whatever it held before; its lines are those texts, one per entry, when
\* no key and no value holds a line feed or a carriage return.
C13_WriteOutputSafe ==
    (last.op = "write_file" /\ last.ok)
    => /\ file.kind = "text"
       /\ file.content = JoinLines(AscLines(cache))
       /\ LineSafe(cache) => Lines(file.content) = AscLines(cache)

C13_Witness ==
    /\ last.op = "write_file" /\ last.ok
    /\ LineSafe(cache)
    /\ ElementsLen(cache) = 2
    /\ cache.max_index > 2
    /\ Len(Lines(file.content)) = 2
    /\ \A a, b \in DOMAIN cache.elements :
          (a = <<"A">> /\ b = <<"B">>)
             => cache.elements[a].index > cache.elements[b].index
    /\ <<"A">> \in DOMAIN cache.elements
    /\ Lines(file.content)[2][1] = "A"

\* C14: in every reachable state the indices of the elements are pairwise
\* distinct, each one in 1..max_index, and a cache that is not empty has
\* exactly one element of minimum index.
C14_RankUnique ==
    /\ \A a, b \in DOMAIN cache.elements :
          cache.elements[a].index = cache.elements[b].index => a = b
    /\ \A a \in DOMAIN cache.elements :
          cache.elements[a].index \in 1..cache.max_index
    /\ cache.elements # EmptyMap
          => Cardinality(OldestKeys(cache.elements)) = 1

C14_Witness ==
    /\ last.op = "put"
    /\ last.removed # {}
    /\ ElementsLen(cache) = 2
    /\ cache.max_index >= 5
    /\ Cardinality(OldestKeys(cache.elements)) = 1
    /\ \E k \in DOMAIN cache.elements : cache.elements[k].index < cache.max_index

\* C15: max_index never decreases; it advances by exactly 1 on every put
\* and every get of a present key, evictions included, and stays as it is
\* on a get of an absent key and on get_elt; the k-th put or get hit made on
\* a cache since Cache::new gives its key the index k.
C15_RankCounter ==
    [][LET hit == last'.key \in DOMAIN cache.elements IN
       /\ cache'.max_index >= cache.max_index
       /\ (last'.op = "put" \/ (last'.op = "get" /\ hit))
             => /\ cache'.max_index = cache.max_index + 1
                /\ ops' = ops + 1
                /\ cache'.elements[last'.key].index = ops'
       /\ ((last'.op = "get" /\ ~hit) \/ last'.op = "get_elt")
             => /\ cache'.max_index = cache.max_index
                /\ ops' = ops]_vars

C15_Witness ==
    /\ last.op = "get"
    /\ last.ret # None
    /\ ops = 5
    /\ cache.elements[last.key].index = 5
    /\ ElementsLen(cache) = 2
    /\ cache.size = 2

\* C16: get_elt returns the element (value and index) of a present key and
\* None for an absent one, and leaves the keys, the values, the indices and
\* max_index as they were; the key the next put of any key removes is the
\* same after it as before.
C16_GetEltReadOnly ==
    [][last'.op = "get_elt"
       => /\ last'.key \in DOMAIN cache.elements
                => last'.ret = Some([index |-> cache.elements[last'.key].index,
                                     value |-> cache.elements[last'.key].value])
          /\ last'.key \notin DOMAIN cache.elements => last'.ret = None
          /\ DOMAIN cache'.elements = DOMAIN cache.elements
          /\ \A k \in DOMAIN cache.elements :
                /\ cache'.elements[k].value = cache.elements[k].value
                /\ cache'.elements[k].index = cache.elements[k].index
          /\ cache'.max_index = cache.max_index
          /\ cache'.size = cache.size
          /\ \A key \in Keys : Victims(cache', key) = Victims(cache, key)]_vars

C16_Witness ==
    /\ last.op = "get_elt"
    /\ last.ret # None
    /\ ElementsLen(cache) = 2 /\ cache.size = 2
    /\ last.key \in OldestKeys(cache.elements)
    /\ last.ret[2].index < cache.max_index - 1
    /\ \E key \in Keys : Victims(cache, key) = { {last.key} }

\* C17: Cache::new(size) returns a cache with no element, max_index = 0
\* and the size it was given.
C17_NewCache ==
    /\ \A size \in 0..MaxSize :
          /\ DOMAIN CacheNew(size).elements = {}
          /\ CacheNew(size).max_index = 0
          /\ CacheNew(size).size = size
    /\ last.op = "new"
          => /\ ElementsLen(cache) = 0
             /\ cache.max_index = 0
             /\ cache.size = last.size
             /\ \A key \in Keys : CacheGet(cache, key).ret = None

C17_Witness ==
    /\ last.op = "new"
    /\ last.size = 2
    /\ cache.size = 2
    /\ cache.elements = EmptyMap
    /\ cache.max_index = 0

\* The keys of c in ascending index.
KeysByIndex(c) ==
    [i \in 1..ElementsLen(c) |->
        CHOOSE k \in DOMAIN c.elements : RankOf(c, k) = i]

\* The cache c and the recency list r hold the same keys with the same
\* values, and the keys of c in ascending index are the list.
Refines(c, r) ==
    /\ DOMAIN c.elements = DOMAIN r.value
    /\ \A k \in DOMAIN c.elements : c.elements[k].value = r.value[k]
    /\ KeysByIndex(c) = r.order

\* C18: for a cache of capacity >= 1, every get and put returns what the
\* same operation returns on the recency list, a put that removes a key
\* removes the oldest key of the list, and after the operation the cache
\* and the list hold the same keys and values, the keys in ascending index
\* being the list order.
C18_LruRefinement ==
    [][(cache.size >= 1 /\ last'.op \in {"put", "get"})
       => /\ last'.op = "put"
                => /\ last'.ret =
                         RefPut(ref, cache.size, last'.key, last'.value).ret
                   /\ last'.removed # {} => last'.removed = {Head(ref.order)}
          /\ last'.op = "get" => last'.ret = RefGet(ref, last'.key).ret
          /\ Refines(cache, ref)
          /\ Refines(cache', ref')]_vars

C18_Witness ==
    /\ cache.size = 2
    /\ last.op = "put"
    /\ last.removed # {}
    /\ cache.max_index = 6
    /\ ref.order = <<<<"A">>, <<"B">>>>
    /\ Refines(cache, ref)
    /\ cache.elements[<<"A">>].index = 5
    /\ last.key = <<"B">>

\* C19: in a cache of capacity >= 2, the key of a put or of a get that
\* found it is still there, with its value, after a put of another key that
\* directly follows, and is not the key that put removes.
C19_NewestSurvives ==
    [][(/\ cache.size >= 2
        /\ last.op = "put" \/ (last.op = "get" /\ last.ret # None)
        /\ last'.op = "put"
        /\ last'.key # last.key)
       => /\ last.key \in DOMAIN cache'.elements
          /\ cache'.elements[last.key] = cache.elements[last.key]
          /\ last.key \notin last'.removed
          /\ last.op = "put"
                => cache'.elements[last.key].value = last.value
          /\ last.op = "get"
                => Some(cache'.elements[last.key].value) = last.ret]_vars

C19_Witness ==
    /\ cache.size = 2
    /\ last.op = "put"
    /\ last.removed # {}
    /\ cache.max_index >= 4
    /\ \E k \in DOMAIN cache.elements :
          /\ k # last.key
          /\ k \notin last.removed
          /\ cache.elements[k].index = cache.max_index - 1

-----------------------------------------------------------------------------
(* Claims about a reload into a cache of another capacity.                  *)

\* The keys of the m elements of c of highest index.
TopKeys(c, m) ==
    { k \in DOMAIN c.elements : RankOf(c, k) > ElementsLen(c) - m }

\* d holds exactly the m elements of c of highest index, with their values
\* and in the same order of index.
HoldsTop(c, d, m) ==
    /\ DOMAIN d.elements = TopKeys(c, m)
    /\ \A k \in TopKeys(c, m) :
          /\ d.elements[k].value = c.elements[k].value
          /\ RankOf(d, k) = RankOf(c, k) - (ElementsLen(c) - m)
    /\ m = 0 => d.elements = EmptyMap

\* C20 as claimed: for a cache of n entries written by write_file and read
\* at once by read_file with a capacity m < n, the cache read holds exactly
\* the m entries of highest index, with their values and in the same order,
\* and is empty for m = 0.
C20_ReloadSmaller ==
    (/\ last.op = "read_file"
     /\ reload.fresh
     /\ last.size < ElementsLen(cache))
    => HoldsTop(cache, loaded, last.size)

\* C20 amended: the same, when the write succeeded, the file could be read
\* back, and no key holds a colon, a line feed or a carriage return and no
\* value a line feed or a carriage return.
C20_ReloadSmallerSafe ==
    (/\ last.op = "read_file"
     /\ reload.fresh /\ reload.written /\ ~last.err /\ reload.safe
     /\ last.size < ElementsLen(cache))
    => /\ HoldsTop(cache, loaded, last.size)
       /\ loaded.max_index = last.size
       /\ loaded.size = last.size

C20_Witness ==
    /\ last.op = "read_file"
    /\ reload.fresh /\ reload.written /\ ~last.err /\ reload.safe
    /\ ElementsLen(cache) = 3
    /\ last.size = 2
    /\ cache.max_index = 4
    /\ HoldsTop(cache, loaded, 2)
    /\ \E k \in DOMAIN cache.elements :
          RankOf(cache, k) = 1 /\ k \notin DOMAIN loaded.elements

-----------------------------------------------------------------------------
(* Claims about what the operations leave alone.                            *)

\* C21: write_file leaves the cache as it was (keys, values, indices,
\* max_index and size), whether the write to the location succeeds or
\* fails; a write that fails leaves the location as it was and nothing
\* else records it.
C21_WriteKeepsCache ==
    [][last'.op = "write_file"
       => /\ DOMAIN cache'.elements = DOMAIN cache.elements
          /\ \A k \in DOMAIN cache.elements :
                cache'.elements[k] = cache.elements[k]
          /\ cache'.max_index = cache.max_index
          /\ cache'.size = cache.size
          /\ loaded' = loaded
          /\ ~file.writable => file' = file]_vars

C21_Witness ==
    /\ last.op = "write_file"
    /\ ~last.ok
    /\ file.kind = "text"
    /\ ElementsLen(cache) = 2
    /\ cache.max_index = 4

\* C22: on a cache made by Cache::new(0), a put of a new key into the empty
\* cache removes nothing; after any put the cache holds exactly the key of
\* that put; and every put and get returns what it returns on the same
\* cache with size 1 and leaves the same elements and max_index, so that a
\* run on Cache::new(0) and the same run on Cache::new(1) go side by side.
C22_ZeroActsAsOne ==
    [][(cache.size = 0 /\ last'.op \in {"put", "get"})
       => LET one == [cache EXCEPT !.size = 1]
              r == IF last'.op = "put"
                   THEN CachePut(one, last'.key, last'.value)
                   ELSE CacheGet(one, last'.key)
          IN  /\ last'.ret = r.ret
              /\ [cache' EXCEPT !.size = 1] = r.cache
              /\ ElementsLen(cache) <= 1
              /\ last'.op = "put"
                    => /\ DOMAIN cache'.elements = {last'.key}
                       /\ cache.elements = EmptyMap => last'.removed = {}]_vars

C22_Witness ==
    /\ cache.size = 0
    /\ last.op = "put"
    /\ last.removed # {}
    /\ DOMAIN cache.elements = {last.key}
    /\ cache.max_index = 4

\* C23: in every state reached from Cache::new by get, put and get_elt,
\* every index lies in 1..max_index, the greatest index of a cache that is
\* not empty is max_index, and the cache is empty exactly when max_index
\* is 0.
C23_NewestIsCounter ==
    /\ \A k \in DOMAIN cache.elements :
          cache.elements[k].index >= 1 /\ cache.elements[k].index <= cache.max_index
    /\ cache.elements # EmptyMap
          => \E k \in DOMAIN cache.elements :
                /\ cache.elements[k].index = cache.max_index
                /\ \A j \in DOMAIN cache.elements :
                      cache.elements[j].index <= cache.elements[k].index
    /\ cache.elements = EmptyMap <=> cache.max_index = 0

C23_Witness ==
    /\ last.op = "get"
    /\ last.ret = None
    /\ ElementsLen(cache) = 2
    /\ cache.max_index = 5
    /\ \E k \in DOMAIN cache.elements : cache.elements[k].index = 5
    /\ \E k \in DOMAIN cache.elements : cache.elements[k].index < 4

\* C24: across a get, a put or a get_elt the number of elements never
\* decreases; a key leaves the cache only in a put of an absent key, which
\* is in the cache afterwards; and a cache of size >= 1 that holds `size`
\* elements holds `size` elements after the operation.
C24_LeaveOnlyByEviction ==
    [][last'.op \in {"get", "put", "get_elt"}
       => /\ ElementsLen(cache') >= ElementsLen(cache)
          /\ \A k \in DOMAIN cache.elements \ DOMAIN cache'.elements :
                /\ last'.op = "put"
                /\ last'.key \notin DOMAIN cache.elements
                /\ last'.key \in DOMAIN cache'.elements
                /\ last'.removed = {k}
          /\ last'.op # "put" \/ last'.key \in DOMAIN cache.elements
                => DOMAIN cache'.elements = DOMAIN cache.elements
          /\ (cache.size >= 1 /\ ElementsLen(cache) = cache.size)
                => ElementsLen(cache') = cache.size]_vars

C24_Witness ==
    /\ last.op = "put"
    /\ last.removed # {}
    /\ \A k \in last.removed : k \notin DOMAIN cache.elements
    /\ cache.size = 2
    /\ ElementsLen(cache) = 2
    /\ cache.max_index = 6

\* C25: the cache read_file(size, ..) returns has the size it was given,
\* holds at most `size` elements and has max_index at most the number of
\* lines of the file and at most `size`, for every size, 0 included; read
\* from the file a write_file of an empty cache has written, it has no
\* element and max_index = 0.
C25_ReadRespectsSize ==
    last.op = "read_file"
    => /\ loaded.size = last.size
       /\ ElementsLen(loaded) <= last.size
       /\ loaded.max_index <= last.size
       /\ ~last.err => loaded.max_index <= Len(Lines(file.content))
       /\ last.err => loaded.max_index = 0
       /\ (reload.fresh /\ reload.written /\ cache.elements = EmptyMap)
             => /\ ~last.err
                /\ loaded.elements = EmptyMap
                /\ loaded.max_index = 0

C25_Witness ==
    /\ last.op = "read_file"
    /\ ~last.err
    /\ last.size = 1
    /\ cache.size = 2
    /\ Len(Lines(file.content)) = 3
    /\ loaded.size = 1
    /\ ElementsLen(loaded) = 1
    /\ loaded.max_index = 1

\* The position in GoodLines of the last line with key k, 0 when none.
LastLineOf(k) ==
    IF \E i \in 1..Len(GoodLines) : LineKey(GoodLines[i]) = Some(k)
    THEN CHOOSE i \in 1..Len(GoodLines) :
            /\ LineKey(GoodLines[i]) = Some(k)
            /\ \A j \in (i + 1)..Len(GoodLines) : LineKey(GoodLines[j]) # Some(k)
    ELSE 0

\* The keys of the lines of GoodLines.
GoodKeys == { LineKey(GoodLines[i])[2] : i \in 1..Len(GoodLines) }

\* C26: the cache read_file returns holds one element for each key of the
\* retained lines, a key on several lines included, with the value of the
\* last retained line of that key, and the elements are in the order of
\* index in which those last lines are in the file.
C26_DuplicateKeys ==
    (last.op = "read_file" /\ ~last.err)
    => /\ DOMAIN loaded.elements = GoodKeys
       /\ \A k \in GoodKeys :
             /\ loaded.elements[k].value =
                   SplitOnce(GoodLines[LastLineOf(k)])[2][2]
             /\ \A j \in GoodKeys :
                   LastLineOf(j) < LastLineOf(k)
                      <=> loaded.elements[j].index < loaded.elements[k].index

C26_Witness ==
    /\ last.op = "read_file" /\ ~last.err
    /\ Len(GoodLines) = 3
    /\ LineKey(GoodLines[1]) = LineKey(GoodLines[3])
    /\ LineKey(GoodLines[1]) = Some(<<"A">>)
    /\ ElementsLen(loaded) = 2
    /\ loaded.elements[<<"A">>].value = <<"2">>
    /\ loaded.elements[<<"A">>].index > loaded.elements[<<"B">>].index

\* C27: a read_file of a location that holds a readable file leaves the
\* location exactly as it was, whatever the capacity and the lines split
\* off or skipped; a read_file changes the location only when it holds no
\* readable file, and then to an empty file.
C27_ReadKeepsFile ==
    [][last'.op = "read_file"
       => /\ file.kind = "text" => (file' = file /\ ~last'.err)
          /\ file' # file
                => /\ file.kind # "text"
                   /\ file'.kind = "text"
                   /\ file'.content = <<>>]_vars

C27_Witness ==
    /\ last.op = "read_file"
    /\ ~last.err
    /\ file.kind = "text"
    /\ Len(Lines(file.content)) > last.size
    /\ Len(GoodLines) < last.size
    /\ ElementsLen(loaded) = 1

\* C28: the doc example of Cache.  In a new cache of size 2, after put A
\* then put B, A has index 0 and B has index 1; a get of A then gives A the
\* index 2; a put of a third key then removes B and gives the new key the
\* index 3.
C28_DocExample ==
    cache.size = 2
    => /\ (/\ ops = 2
           /\ last.op = "put"
           /\ ref.order = << <<"A">>, <<"B">> >>)
             => /\ cache.elements[<<"A">>].index = 0
                /\ cache.elements[<<"B">>].index = 1
       /\ (/\ ops = 3
           /\ last.op = "get" /\ last.key = <<"A">>
           /\ ref.order = << <<"B">>, <<"A">> >>)
             => cache.elements[<<"A">>].index = 2
       /\ (/\ ops = 4
           /\ last.op = "put" /\ last.key \notin {<<"A">>, <<"B">>}
           /\ last.removed = {<<"B">>}
           /\ ref.order = << <<"A">>, last.key >>)
             => cache.elements[last.key].index = 3

====
